---- MODULE Spec2Model ----
(***************************************************************************)
(* Model of the ZIP-level slide splitter, PPTXSplitter (the last and       *)
(* complete revision of the class in src/pptx_cli_tool.py, lines 1654 to   *)
(* 2044): the dependency walk, the rewriting of the presentation manifest  *)
(* and of its relationship index, the metadata update and the post-build   *)
(* verification, run unit by unit over a source package.                   *)
(*                                                                         *)
(* A string is a sequence of tokens.  The separator "/" is a token of its  *)
(* own, every other token is a run of characters without "/".  String      *)
(* concatenation is \o, so that the path arithmetic of the code (rsplit,   *)
(* split, join, prefixing "ppt/", appending ".rels") is computed the way   *)
(* the code computes it.  By convention the suffix ".rels" is always a     *)
(* token of its own, so equal strings are equal token sequences.           *)
(***************************************************************************)
EXTENDS Integers, Sequences, FiniteSets, TLC

\* Largest number of slides of a source package.
MaxSlides == 3

\* Largest number of slides of a source package that reference more than
\* layout 1 (an image, a missing image, or layout 2).
MaxSpecial == 1

\* Largest number of (start, end) ranges given to split_pptx_by_range.
MaxRanges == 2

\* Largest number of slides of the presentation split_pptx_by_range reads.
MaxRangeSlides == 2

\* Largest number of input files given to a merge.
MaxFiles == 2

\* Largest number of slides of an input file of a merge.
MaxUnits == 2

\* Largest number of segments of a target given to _resolve_path.
MaxSegments == 3

VARIABLES
    src,           \* the source container: sequence of [name, content] entries
    corrupt,       \* names of source entries whose read raises (bad CRC)
    pc,            \* position of split(): "start", "loop", "collect", "copy",
                   \*   "pres", "rels", "app", "verify", "done"
    slides,        \* the list _get_slides_with_details returned
    idx,           \* 1-based index of the unit being built
    to_process,    \* the walk's queue
    processed,     \* the walk's visited set
    deps,          \* the walk's result set
    expanded,      \* history: the parts the walk expanded (took off the queue
                   \*   and processed), in order
    outs,          \* outs[i]: the container at unit i's destination path
    output_files,  \* the list split() returns
    failed,        \* units for which _create_single_slide_file returned False
    error          \* the error split() reported before returning the empty
                   \*   list: "" (none), "invalid" or "no_slides"

\* The state of the presentation-level operations (split_pptx,
\* split_pptx_by_range, merge_pptx of PPTXSplitMerge, and PPTXMerger.merge)
VARIABLES
    call,          \* the operation called and its arguments
    lpc,           \* position in the operation
    disk,          \* the files: file name -> the presentation stored in it
    prs,           \* the presentation loaded from the input being read
    new_prs,       \* the presentation being built (new_prs, base_prs)
    pos,           \* the outer loop's position (i, idx)
    slide_idx,     \* the inner loop's position
    file_count,    \* split_pptx's file_count
    slide_files,   \* PPTXMerger.slide_files
    temp_dir,      \* PPTXMerger's temporary directory: whether it exists, and
                   \*   the files in it
    taken,         \* history: the input files a merge took, in order
    ret            \* what the operation returned

splitVars == <<src, corrupt, pc, slides, idx, to_process, processed, deps,
               expanded, outs, output_files, failed, error>>

libVars == <<call, lpc, disk, prs, new_prs, pos, slide_idx, file_count,
             slide_files, temp_dir, taken, ret>>

vars == <<splitVars, libVars>>

-----------------------------------------------------------------------------
(* Strings and paths *)

\* target.startswith('/')
StartsWithSlash(s) == Len(s) > 0 /\ s[1] = "/"

\* target.startswith('http'): the first token of "http://host/..." is "http:"
StartsWithHttp(s) == Len(s) > 0 /\ s[1] \in {"http:", "https:"}

\* '/' in s
HasSlash(s) == \E i \in 1..Len(s) : s[i] = "/"

\* position of the last "/" of s (0 when there is none)
LastSlash(s) ==
    IF HasSlash(s) THEN CHOOSE i \in 1..Len(s) :
                            s[i] = "/" /\ \A j \in (i+1)..Len(s) : s[j] # "/"
    ELSE 0

\* s.rsplit('/', 1)
RSplit1(s) ==
    IF HasSlash(s)
    THEN <<SubSeq(s, 1, LastSlash(s) - 1), SubSeq(s, LastSlash(s) + 1, Len(s))>>
    ELSE <<s>>

RECURSIVE SplitFrom(_, _, _, _)
SplitFrom(s, i, cur, acc) ==
    IF i > Len(s) THEN Append(acc, cur)
    ELSE IF s[i] = "/" THEN SplitFrom(s, i + 1, <<>>, Append(acc, cur))
    ELSE SplitFrom(s, i + 1, Append(cur, s[i]), acc)

\* s.split('/')
SplitSlash(s) == SplitFrom(s, 1, <<>>, <<>>)

RECURSIVE JoinSlash(_)
\* '/'.join(parts)
JoinSlash(parts) ==
    IF parts = <<>> THEN <<>>
    ELSE IF Len(parts) = 1 THEN parts[1]
    ELSE parts[1] \o <<"/">> \o JoinSlash(Tail(parts))

\* _get_rels_path
GetRelsPath(file_path) ==
    LET parts == RSplit1(file_path) IN
    IF Len(parts) = 2
    THEN parts[1] \o <<"/", "_rels", "/">> \o parts[2] \o <<".rels">>
    ELSE <<"_rels", "/">> \o file_path \o <<".rels">>

RECURSIVE ApplyParts(_, _)
\* the loop of _resolve_path over the segments of the target
ApplyParts(parts, base_parts) ==
    IF parts = <<>> THEN base_parts
    ELSE LET part == Head(parts) IN
         IF part = <<"..">>
         THEN ApplyParts(Tail(parts),
                         IF base_parts # <<>>
                         THEN SubSeq(base_parts, 1, Len(base_parts) - 1)
                         ELSE base_parts)
         ELSE IF part # <<>> /\ part # <<".">>
         THEN ApplyParts(Tail(parts), Append(base_parts, part))
         ELSE ApplyParts(Tail(parts), base_parts)

\* _resolve_path.  None is the empty string here: the callers only test the
\* truth value of the result, and '' and None are both false.
ResolvePath(base, target) ==
    IF StartsWithSlash(target) THEN Tail(target)
    ELSE LET base_dir   == IF HasSlash(base) THEN RSplit1(base)[1] ELSE <<>>
             parts      == SplitSlash(target)
             base_parts == IF base_dir # <<>> THEN SplitSlash(base_dir) ELSE <<>>
         IN JoinSlash(ApplyParts(parts, base_parts))

-----------------------------------------------------------------------------
(* Containers and part contents *)

\* Every content has the same fields; `kind` says which of them are meaningful.
Bytes(d) ==
    [kind |-> "bytes", data |-> d, rels |-> <<>>, hasLst |-> FALSE,
     sldIdLst |-> <<>>, Slides |-> 0, HiddenSlides |-> 0]

RelsPart(rs) == [Bytes("") EXCEPT !.kind = "rels", !.rels = rs]

PresPart(has, lst) ==
    [Bytes("") EXCEPT !.kind = "pres", !.hasLst = has, !.sldIdLst = lst]

AppPart(n, h) == [Bytes("") EXCEPT !.kind = "app", !.Slides = n, !.HiddenSlides = h]

\* [Content_Types].xml: the extensions that have a Default element and the
\* part names that have an Override element
TypesPart(defaults, overrides) ==
    [Bytes("") EXCEPT !.kind = "types",
                      !.data = [defaults |-> defaults, overrides |-> overrides]]

Entry(n, c) == [name |-> n, content |-> c]

\* zipfile.ZipFile.namelist(), as the set the code tests membership in
NameList(zip) == {zip[i].name : i \in DOMAIN zip}

\* zipfile.ZipFile.read(name): the last entry written under that name
Read(zip, n) ==
    zip[CHOOSE i \in DOMAIN zip :
            zip[i].name = n /\ \A j \in DOMAIN zip : zip[j].name = n => j <= i].content

\* A relationship.  Type is the last segment of the relationship type URI,
\* Mode the TargetMode attribute ("Internal" when the attribute is absent).
Rel(id, type, target) ==
    [Id |-> id, Type |-> type, Target |-> target, Mode |-> "Internal"]

\* a relationship with TargetMode="External"
ExternalRel(id, type, target) == [Rel(id, type, target) EXCEPT !.Mode = "External"]

-----------------------------------------------------------------------------
(* Well-known part names *)

ContentTypesPath == <<"[Content_Types].xml">>
RootRelsPath     == <<"_rels", "/", ".rels">>
CorePropsPath    == <<"docProps", "/", "core.xml">>
AppPath          == <<"docProps", "/", "app.xml">>
PresPath         == <<"ppt", "/", "presentation.xml">>
PresRelsPath     == <<"ppt", "/", "_rels", "/", "presentation.xml", ".rels">>
PresPropsPath    == <<"ppt", "/", "presProps.xml">>
ViewPropsPath    == <<"ppt", "/", "viewProps.xml">>
TableStylesPath  == <<"ppt", "/", "tableStyles.xml">>

\* core_files of _collect_all_dependencies
CoreFiles ==
    {ContentTypesPath, RootRelsPath, CorePropsPath, AppPath, PresPath,
     PresRelsPath, PresPropsPath, ViewPropsPath, TableStylesPath}

\* the two names _create_single_slide_file does not copy
SpecialFiles == {PresPath, PresRelsPath}

\* '/theme' in fname
ContainsSlashTheme(s) ==
    \E i \in 1..(Len(s) - 1) :
        s[i] = "/" /\ s[i + 1] \in {"theme", "theme1.xml", "theme2.xml"}

\* '/slide' in rel_type and 'slideMaster' not in rel_type
\*                     and 'slideLayout' not in rel_type
\* over the relationship types of the model (the tail of each type URI)
IsSlideRelType(type) ==
    /\ type \in {"slide", "slideMaster", "slideLayout"}
    /\ type # "slideMaster"
    /\ type # "slideLayout"

\* the identifiers _write_modified_presentation gives the one slide
FirstSlideId == 256
LoneRelId    == "rId1"

-----------------------------------------------------------------------------
(* The source packages the model splits *)

SlideFile == <<"slide1.xml", "slide2.xml", "slide3.xml", "slide4.xml", "slide5.xml">>
ImageFile == <<"image1.png", "image2.png", "image3.png", "image4.png", "image5.png">>
RId == <<"rId1", "rId2", "rId3", "rId4", "rId5", "rId6", "rId7", "rId8", "rId9",
         "rId10", "rId11", "rId12">>

SlidePath(i) == <<"ppt", "/", "slides", "/", SlideFile[i]>>
ImagePath(i) == <<"ppt", "/", "media", "/", ImageFile[i]>>
LayoutPath(k) ==
    <<"ppt", "/", "slideLayouts", "/",
      IF k = 1 THEN "slideLayout1.xml" ELSE "slideLayout2.xml">>
MasterPath(k) ==
    <<"ppt", "/", "slideMasters", "/",
      IF k = 1 THEN "slideMaster1.xml" ELSE "slideMaster2.xml">>
ThemePath(k) ==
    <<"ppt", "/", "theme", "/", IF k = 1 THEN "theme1.xml" ELSE "theme2.xml">>
MissingPath == <<"ppt", "/", "media", "/", "missing.png">>

\* the target string that leads from a part in one directory of ppt/ to `path`
UpTo(path) == <<"..", "/">> \o SubSeq(path, 3, Len(path))

\* What a slide references: its layout, and for some an image of its own or
\* an image that is not in the package.
SlideKinds == {"L1", "L1X", "L1D", "L2"}

\* The shape of the layout/master/theme graph:
\*   chain   both layouts use master 1, master 1 uses theme 1
\*   cyclic  as chain, and master 1 lists its layouts back
\*   knot    as chain, and master 1 also points at itself, and layout 1
\*           also references theme 1 (a diamond: layout and master share it)
\*   two     layout 2 uses master 2, which uses theme 2 (absolute target)
Graphs == {"chain", "cyclic", "knot", "two"}

Reverse(s) == [i \in 1..Len(s) |-> s[Len(s) + 1 - i]]
Ordered(relOrder, s) == IF relOrder = "rev" THEN Reverse(s) ELSE s

SlideRels(i, kind) ==
    LET layout == Rel("rId1", "slideLayout",
                      UpTo(LayoutPath(IF kind = "L2" THEN 2 ELSE 1)))
    IN CASE kind = "L1X" -> <<layout, Rel("rId2", "image", UpTo(ImagePath(i)))>>
         [] kind = "L1D" -> <<layout, Rel("rId2", "image", UpTo(MissingPath))>>
         [] OTHER        -> <<layout>>

LayoutRels(k, graph) ==
    <<Rel("rId1", "slideMaster",
          UpTo(MasterPath(IF k = 2 /\ graph = "two" THEN 2 ELSE 1)))>>
    \o (IF k = 1 /\ graph = "knot"
        THEN <<Rel("rId2", "theme", UpTo(ThemePath(1)))>> ELSE <<>>)

MasterRels(k, graph) ==
    IF k = 2 THEN <<Rel("rId1", "theme", <<"/">> \o ThemePath(2))>>
    ELSE CASE graph = "cyclic" ->
                <<Rel("rId1", "slideLayout", UpTo(LayoutPath(1))),
                  Rel("rId2", "slideLayout", UpTo(LayoutPath(2))),
                  Rel("rId3", "theme", UpTo(ThemePath(1)))>>
           [] graph = "knot" ->
                <<Rel("rId1", "slideMaster", <<"slideMaster1.xml">>),
                  Rel("rId2", "theme", UpTo(ThemePath(1)))>>
           [] OTHER -> <<Rel("rId1", "theme", UpTo(ThemePath(1)))>>

NumMasters(graph) == IF graph = "two" THEN 2 ELSE 1

\* The relationship identifier of slide i in ppt/_rels/presentation.xml.rels:
\* after the masters' (as PowerPoint writes them) or before them.
SrcSlideRId(i, graph, idScheme) ==
    IF idScheme = "masterFirst" THEN RId[NumMasters(graph) + i] ELSE RId[i]

SrcMasterRId(k, n, idScheme) ==
    IF idScheme = "masterFirst" THEN RId[k] ELSE RId[n + k]

SrcSlideId(i, idScheme) ==
    IF idScheme = "masterFirst" THEN FirstSlideId + i - 1 ELSE 2 * FirstSlideId + i

PresRels(n, graph, idScheme) ==
    [k \in 1..NumMasters(graph) |->
        Rel(SrcMasterRId(k, n, idScheme), "slideMaster",
            SubSeq(MasterPath(k), 3, Len(MasterPath(k))))]
    \o [i \in 1..n |->
        Rel(SrcSlideRId(i, graph, idScheme), "slide",
            SubSeq(SlidePath(i), 3, Len(SlidePath(i))))]
    \o <<Rel(RId[NumMasters(graph) + n + 1], "presProps", <<"presProps.xml">>),
         Rel(RId[NumMasters(graph) + n + 2], "theme",
             SubSeq(ThemePath(1), 3, Len(ThemePath(1))))>>

\* The extension of a part name.  The names of the model are those of
\* relationship indexes (.rels), of the images of ppt/media (.png) and of XML
\* parts.
Extension(name) ==
    IF name[Len(name)] = ".rels" THEN "rels"
    ELSE IF Len(name) > 3 /\ name[3] = "media" THEN "png"
    ELSE "xml"

\* the extensions the type registry of a source package declares by default
DefaultExtensions == {"rels", "xml", "png"}

\* the parts the type registry of a source package declares by an Override:
\* its XML parts, the relationship indexes and the images being covered by
\* their extensions
OverrideNames(zip) == {n \in NameList(zip) : Extension(n) = "xml"}

\* the entries of a source package but its type registry
SourceParts(n, kinds, relOrder, graph, idScheme, hasLst) ==
    <<Entry(RootRelsPath, RelsPart(<<Rel("rId1", "officeDocument", PresPath)>>)),
      Entry(CorePropsPath, Bytes("core.xml")),
      Entry(AppPath, AppPart(n, n \div 2)),
      Entry(PresPath,
            PresPart(hasLst,
                     [i \in 1..n |-> [id  |-> SrcSlideId(i, idScheme),
                                      rid |-> SrcSlideRId(i, graph, idScheme)]])),
      Entry(PresRelsPath,
            RelsPart(Ordered(relOrder, PresRels(n, graph, idScheme)))),
      Entry(PresPropsPath, Bytes("presProps.xml"))>>
    \o [i \in 1..n |-> Entry(SlidePath(i), Bytes(SlideFile[i]))]
    \o [i \in 1..n |->
        Entry(GetRelsPath(SlidePath(i)),
              RelsPart(Ordered(relOrder, SlideRels(i, kinds[i]))))]
    \o SelectSeq([i \in 1..n |-> Entry(ImagePath(i), Bytes(ImageFile[i]))],
                 LAMBDA e : \E i \in 1..n : kinds[i] = "L1X" /\ e.name = ImagePath(i))
    \o [k \in 1..2 |-> Entry(LayoutPath(k), Bytes(LayoutPath(k)[5]))]
    \o [k \in 1..2 |->
        Entry(GetRelsPath(LayoutPath(k)),
              RelsPart(Ordered(relOrder, LayoutRels(k, graph))))]
    \o [k \in 1..NumMasters(graph) |-> Entry(MasterPath(k), Bytes(MasterPath(k)[5]))]
    \o [k \in 1..NumMasters(graph) |->
        Entry(GetRelsPath(MasterPath(k)),
              RelsPart(Ordered(relOrder, MasterRels(k, graph))))]
    \o [k \in 1..NumMasters(graph) |-> Entry(ThemePath(k), Bytes(ThemePath(k)[5]))]

Source(n, kinds, relOrder, graph, idScheme, hasLst) ==
    LET parts == SourceParts(n, kinds, relOrder, graph, idScheme, hasLst)
    IN <<Entry(ContentTypesPath,
               TypesPart(DefaultExtensions, OverrideNames(parts)))>> \o parts

-----------------------------------------------------------------------------
(* Reading the source *)

\* source_zip.read(name) returns (the entry is there and its CRC is good)
CanRead(zip, bad, n) == n \in NameList(zip) /\ n \notin bad

\* _analyze_pptx: the 'valid' field of its result
AnalyzeValid(zip, bad) ==
    /\ PresPath \in NameList(zip)
    /\ ContentTypesPath \in NameList(zip)
    /\ PresPath \notin bad

\* index of the first relationship of rels whose Id is id (0 when there is none):
\* the inner loop of _get_slides_with_details, which breaks at the first match
FirstRel(rels, id) ==
    IF \E i \in DOMAIN rels : rels[i].Id = id
    THEN CHOOSE i \in DOMAIN rels :
            rels[i].Id = id /\ \A j \in 1..(i - 1) : rels[j].Id # id
    ELSE 0

\* _get_slides_with_details
GetSlidesWithDetails(zip, bad) ==
    IF ~CanRead(zip, bad, PresPath) \/ ~CanRead(zip, bad, PresRelsPath) THEN <<>>
    ELSE LET pres == Read(zip, PresPath)
             rels == Read(zip, PresRelsPath).rels
             kept == SelectSeq(pres.sldIdLst,
                        LAMBDA e : /\ e.rid # ""
                                   /\ FirstRel(rels, e.rid) # 0
                                   /\ rels[FirstRel(rels, e.rid)].Target # <<>>)
         IN IF ~pres.hasLst THEN <<>>
            ELSE [i \in 1..Len(kept) |->
                    LET target == rels[FirstRel(rels, kept[i].rid)].Target IN
                    [rel_id   |-> kept[i].rid,
                     slide_id |-> kept[i].id,
                     path     |-> <<"ppt", "/">> \o target,
                     target   |-> target]]

-----------------------------------------------------------------------------
(* The dependency walk, _collect_all_dependencies *)

\* Children with the bug of stopping at the first relationship followed
ChildrenFirstOnly(zip, bad, current, seen) ==
    LET rels_path == GetRelsPath(current) IN
    IF ~CanRead(zip, bad, rels_path) THEN <<>>
    ELSE LET rels == Read(zip, rels_path).rels
             followed == SelectSeq(rels,
                            LAMBDA r : /\ r.Target # <<>>
                                       /\ ~StartsWithHttp(r.Target)
                                       /\ ResolvePath(current, r.Target) # <<>>
                                       /\ ResolvePath(current, r.Target) \notin seen)
         IN IF followed = <<>> THEN <<>>
            ELSE <<ResolvePath(current, followed[1].Target)>>

\* the paths one part's relationship index adds to the queue, in listing order
Children(zip, bad, current, seen) ==
    LET rels_path == GetRelsPath(current) IN
    IF ~CanRead(zip, bad, rels_path) THEN <<>>
    ELSE LET rels == Read(zip, rels_path).rels
             followed == SelectSeq(rels,
                            LAMBDA r : /\ r.Target # <<>>
                                       /\ ~StartsWithHttp(r.Target)
                                       /\ ResolvePath(current, r.Target) # <<>>
                                       /\ ResolvePath(current, r.Target) \notin seen)
         IN [i \in 1..Len(followed) |-> ResolvePath(current, followed[i].Target)]

\* WalkIter with the bug of not testing `current in processed` after the pop
WalkIterNoSeenCheck(zip, bad, w) ==
    LET current   == Head(w.q)
        rels_path == GetRelsPath(current)
    IN [q    |-> Tail(w.q) \o Children(zip, bad, current, w.seen \cup {current}),
        seen |-> w.seen \cup {current},
        deps |-> w.deps \cup {current}
                 \cup (IF rels_path \in NameList(zip) THEN {rels_path} ELSE {}),
        log  |-> Append(w.log, current)]

\* one iteration of the while loop, on the walk state w = [q, seen, deps, log]
WalkIter(zip, bad, w) ==
    LET current   == Head(w.q)
        rels_path == GetRelsPath(current)
    IN IF current \in w.seen THEN [w EXCEPT !.q = Tail(w.q)]
       ELSE [q    |-> Tail(w.q) \o Children(zip, bad, current, w.seen \cup {current}),
             seen |-> w.seen \cup {current},
             deps |-> w.deps \cup {current}
                      \cup (IF rels_path \in NameList(zip) THEN {rels_path} ELSE {}),
             log  |-> Append(w.log, current)]

\* what follows the loop: the core structure files and every theme file
AddCoreAndThemes(zip, d) ==
    d \cup (CoreFiles \cap NameList(zip))
      \cup {f \in NameList(zip) : ContainsSlashTheme(f)}

RECURSIVE WalkAll(_, _, _)
WalkAll(zip, bad, w) ==
    IF w.q = <<>> THEN w ELSE WalkAll(zip, bad, WalkIter(zip, bad, w))

\* _collect_all_dependencies as a function of the package and the slide's path
CollectAllDependencies(zip, bad, slide_path) ==
    AddCoreAndThemes(zip,
        WalkAll(zip, bad, [q |-> <<slide_path>>, seen |-> {}, deps |-> {},
                           log |-> <<>>]).deps)

-----------------------------------------------------------------------------
(* Building one output, _create_single_slide_file *)

\* CopyList with the bug of leaving out the files of ppt/media
CopyListNoMedia(zip, d) ==
    LET names == [i \in DOMAIN zip |-> zip[i].name]
    IN SelectSeq(names, LAMBDA f : /\ f \in d
                                   /\ f \notin SpecialFiles
                                   /\ ~(Len(f) > 3 /\ f[3] = "media"))

\* CopyList with the bug of copying every file of the source
CopyListAll(zip, d) ==
    LET names == [i \in DOMAIN zip |-> zip[i].name]
    IN SelectSeq(names, LAMBDA f : f \notin SpecialFiles)

\* The files the copy loop writes, in the order it writes them.  The loop runs
\* over a set; the model takes the files in the order of the source listing.
\* It skips the two special files and the paths that are not in the source.
CopyList(zip, d) ==
    LET names == [i \in DOMAIN zip |-> zip[i].name]
    IN SelectSeq(names, LAMBDA f : f \in d /\ f \notin SpecialFiles)

\* the length of the longest prefix of files that can be read
RECURSIVE GoodPrefix(_, _)
GoodPrefix(files, bad) ==
    IF files = <<>> \/ Head(files) \in bad THEN 0
    ELSE 1 + GoodPrefix(Tail(files), bad)

\* ModifiedPresentation with the bug of keeping the identifiers of the source
ModifiedPresentationKeepIds(pres, slide_data) ==
    IF pres.hasLst
    THEN [pres EXCEPT !.sldIdLst = <<[id  |-> slide_data.slide_id,
                                      rid |-> slide_data.rel_id]>>]
    ELSE pres

\* _write_modified_presentation: the content written as ppt/presentation.xml
ModifiedPresentation(pres, slide_data) ==
    IF pres.hasLst
    THEN [pres EXCEPT !.sldIdLst = <<[id |-> FirstSlideId, rid |-> LoneRelId]>>]
    ELSE pres

\* ModifiedPresentationRels with the bug of removing no relationship
ModifiedPresentationRelsKeepAll(rels_part, slide_data) ==
    [rels_part EXCEPT !.rels =
        Append(rels_part.rels, Rel(LoneRelId, "slide", slide_data.target))]

\* _write_modified_presentation_rels: the content written as
\* ppt/_rels/presentation.xml.rels
ModifiedPresentationRels(rels_part, slide_data) ==
    [rels_part EXCEPT !.rels =
        Append(SelectSeq(rels_part.rels, LAMBDA r : ~IsSlideRelType(r.Type)),
               Rel(LoneRelId, "slide", slide_data.target))]

\* UpdatedApp with the bug of leaving the count of hidden slides as it is
UpdatedAppSlidesOnly(app) == [app EXCEPT !.Slides = 1]

\* _update_app_properties: the two re.sub calls
UpdatedApp(app) == [app EXCEPT !.Slides = 1, !.HiddenSlides = 0]

\* _verify_output on a container
VerifyOutput(zip) ==
    IF PresPath \notin NameList(zip) THEN FALSE
    ELSE LET pres == Read(zip, PresPath) IN
         IF pres.hasLst THEN Len(pres.sldIdLst) = 1 ELSE TRUE

-----------------------------------------------------------------------------
(* split() as a state machine *)

NoFile == [exists |-> FALSE, entries |-> <<>>]

\* SplitError with the bug of returning the empty list without a message
\* when the presentation has no slide
SplitErrorSilent(valid, found) ==
    IF ~valid THEN "invalid" ELSE ""

\* the error split() prints before it returns [] (lines 1680 to 1694): the
\* package is not valid, or no slide was found in it
SplitError(valid, found) ==
    IF ~valid THEN "invalid"
    ELSE IF found = <<>> THEN "no_slides"
    ELSE ""

\* An identifier no relationship of ppt/_rels/presentation.xml.rels carries
OrphanRId == "rId99"
OrphanSlideId == 999

\* the package zip with one more reference at the head of the manifest's
\* slide list, whose relationship identifier matches no relationship
WithOrphan(zip) ==
    [k \in DOMAIN zip |->
        IF zip[k].name = PresPath
        THEN Entry(PresPath,
                   [zip[k].content EXCEPT
                       !.sldIdLst = <<[id |-> OrphanSlideId, rid |-> OrphanRId]>> \o @])
        ELSE zip[k]]

\* A directory that does not exist, and a directory that holds `files`
NoDir == [exists |-> FALSE, files |-> <<>>]
Dir(files) == [exists |-> TRUE, files |-> files]

\* the presentation-level operations are not running
LibIdle ==
    /\ call = [op |-> "none"]
    /\ lpc = "idle"
    /\ disk = <<>>
    /\ prs = <<>>
    /\ new_prs = <<>>
    /\ pos = 0
    /\ slide_idx = 0
    /\ file_count = 0
    /\ slide_files = <<>>
    /\ temp_dir = NoDir
    /\ taken = <<>>
    /\ ret = <<>>

Init ==
    /\ \E n \in 0..MaxSlides, relOrder \in {"fwd", "rev"}, graph \in Graphs,
          idScheme \in {"masterFirst", "slidesFirst"}, hasLst \in BOOLEAN :
         /\ (n > 0 => hasLst)
         /\ (n = 0 => relOrder = "fwd" /\ graph = "chain" /\ idScheme = "masterFirst")
         /\ \E kinds \in [1..n -> SlideKinds] :
              /\ Cardinality({i \in 1..n : kinds[i] # "L1"}) <= MaxSpecial
              /\ \E orphan \in BOOLEAN :
                   /\ orphan => /\ hasLst
                                /\ relOrder = "fwd"
                                /\ graph = "chain"
                                /\ idScheme = "masterFirst"
                   /\ src = IF orphan
                            THEN WithOrphan(Source(n, kinds, relOrder, graph,
                                                   idScheme, hasLst))
                            ELSE Source(n, kinds, relOrder, graph, idScheme, hasLst)
              /\ \E bad \in SUBSET {ImagePath(i) : i \in {j \in 1..n : kinds[j] = "L1X"}} :
                   /\ Cardinality(bad) <= 1
                   /\ corrupt = bad
    /\ pc = "start"
    /\ slides = <<>>
    /\ idx = 0
    /\ to_process = <<>>
    /\ processed = {}
    /\ deps = {}
    /\ expanded = <<>>
    /\ outs = [i \in 1..MaxSlides |-> NoFile]
    /\ output_files = <<>>
    /\ failed = {}
    /\ error = ""
    /\ LibIdle

\* split, lines 1673 to 1703: analyse, read the slide list
Start ==
    /\ pc = "start"
    /\ error' = SplitError(AnalyzeValid(src, corrupt),
                           GetSlidesWithDetails(src, corrupt))
    /\ IF ~AnalyzeValid(src, corrupt) \/ GetSlidesWithDetails(src, corrupt) = <<>>
       THEN /\ pc' = "done"
            /\ UNCHANGED <<slides, idx>>
       ELSE /\ slides' = GetSlidesWithDetails(src, corrupt)
            /\ idx' = 1
            /\ pc' = "loop"
    /\ UNCHANGED <<libVars, src, corrupt, to_process, processed, deps, expanded, outs,
                   output_files, failed>>

\* the head of the for loop: the next unit, whose walk starts, or the end
NextUnit ==
    /\ pc = "loop"
    /\ IF idx > Len(slides)
       THEN /\ pc' = "done"
            /\ UNCHANGED <<to_process, processed, deps, expanded>>
       ELSE /\ pc' = "collect"
            /\ to_process' = <<slides[idx].path>>
            /\ processed' = {}
            /\ deps' = {}
            /\ expanded' = <<>>
    /\ UNCHANGED <<libVars, error, src, corrupt, slides, idx, outs, output_files, failed>>

\* one iteration of the walk's while loop
WalkStep ==
    /\ pc = "collect"
    /\ to_process # <<>>
    /\ LET w == WalkIter(src, corrupt, [q |-> to_process, seen |-> processed,
                                        deps |-> deps, log |-> expanded])
       IN /\ to_process' = w.q
          /\ processed' = w.seen
          /\ deps' = w.deps
          /\ expanded' = w.log
    /\ UNCHANGED <<libVars, error, src, corrupt, pc, slides, idx, outs, output_files, failed>>

\* the end of the walk: core files and themes are added, the set is returned
WalkDone ==
    /\ pc = "collect"
    /\ to_process = <<>>
    /\ deps' = AddCoreAndThemes(src, deps)
    /\ pc' = "copy"
    /\ UNCHANGED <<libVars, error, src, corrupt, slides, idx, to_process, processed, expanded,
                   outs, output_files, failed>>

\* the except clause of _create_single_slide_file and the else branch of split
Fail ==
    /\ failed' = failed \cup {idx}
    /\ idx' = idx + 1
    /\ pc' = "loop"

\* the output container is created and the dependency files are copied; a
\* read that raises ends the unit, the container being closed where it stands
CopyDeps ==
    /\ pc = "copy"
    /\ LET files == CopyList(src, deps)
           k     == GoodPrefix(files, corrupt)
           wrote == [i \in 1..k |-> Entry(files[i], Read(src, files[i]))]
       IN /\ outs' = [outs EXCEPT ![idx] = [exists |-> TRUE, entries |-> wrote]]
          /\ IF k = Len(files)
             THEN pc' = "pres" /\ UNCHANGED <<idx, failed>>
             ELSE Fail
    /\ UNCHANGED <<libVars, error, src, corrupt, slides, to_process, processed, deps, expanded,
                   output_files>>

WriteTo(i, n, c) ==
    outs' = [outs EXCEPT ![i].entries = Append(@, Entry(n, c))]

WritePresentation ==
    /\ pc = "pres"
    /\ IF CanRead(src, corrupt, PresPath)
       THEN /\ WriteTo(idx, PresPath,
                       ModifiedPresentation(Read(src, PresPath), slides[idx]))
            /\ pc' = "rels"
            /\ UNCHANGED <<idx, failed>>
       ELSE Fail /\ UNCHANGED outs
    /\ UNCHANGED <<libVars, error, src, corrupt, slides, to_process, processed, deps, expanded,
                   output_files>>

WritePresentationRels ==
    /\ pc = "rels"
    /\ IF CanRead(src, corrupt, PresRelsPath)
       THEN /\ WriteTo(idx, PresRelsPath,
                       ModifiedPresentationRels(Read(src, PresRelsPath), slides[idx]))
            /\ pc' = "app"
            /\ UNCHANGED <<idx, failed>>
       ELSE Fail /\ UNCHANGED outs
    /\ UNCHANGED <<libVars, error, src, corrupt, slides, to_process, processed, deps, expanded,
                   output_files>>

\* _update_app_properties; whatever is raised in it is swallowed
UpdateAppProperties ==
    /\ pc = "app"
    /\ IF CanRead(src, corrupt, AppPath)
       THEN WriteTo(idx, AppPath, UpdatedApp(Read(src, AppPath)))
       ELSE UNCHANGED outs
    /\ pc' = "verify"
    /\ UNCHANGED <<libVars, error, src, corrupt, slides, idx, to_process, processed, deps,
                   expanded, output_files, failed>>

\* the container is closed and verified; split records the result
Verify ==
    /\ pc = "verify"
    /\ IF VerifyOutput(outs[idx].entries)
       THEN /\ output_files' = Append(output_files, idx)
            /\ idx' = idx + 1
            /\ pc' = "loop"
            /\ UNCHANGED failed
       ELSE Fail /\ UNCHANGED output_files
    /\ UNCHANGED <<libVars, error, src, corrupt, slides, to_process, processed, deps, expanded, outs>>

Next ==
    \/ Start
    \/ NextUnit
    \/ WalkStep
    \/ WalkDone
    \/ CopyDeps
    \/ WritePresentation
    \/ WritePresentationRels
    \/ UpdateAppProperties
    \/ Verify

Spec == Init /\ [][Next]_vars

-----------------------------------------------------------------------------
(* Source packages with an external relationship or with a missing unit *)

\* the package zip with one more relationship in the relationship index `name`
AppendRel(zip, name, rel) ==
    [k \in DOMAIN zip |->
        IF zip[k].name = name
        THEN Entry(name, [zip[k].content EXCEPT !.rels = Append(@, rel)])
        ELSE zip[k]]

\* the package zip without the entry `name`
WithoutEntry(zip, name) == SelectSeq(zip, LAMBDA e : e.name # name)

\* Targets of external relationships: a web address, a mail address, and a
\* linked file beside the package, which is written as a relative URI
ExternalKinds == {"http", "mailto", "linked"}
ExternalTarget(kind) ==
    CASE kind = "http"   -> <<"https:", "/", "/", "example.com">>
      [] kind = "mailto" -> <<"mailto:someone@example.com">>
      [] OTHER           -> <<"..", "/", "media", "/", "linked.mp4">>

\* A package of n plain slides in which slide i either carries an external
\* relationship or is listed by the manifest while its part is not in the
\* archive ("gone").
VariantSource(n, i, variant, idScheme) ==
    LET base == Source(n, [j \in 1..n |-> "L1"], "fwd", "chain", idScheme, TRUE)
    IN IF variant = "gone" THEN WithoutEntry(base, SlidePath(i))
       ELSE AppendRel(base, GetRelsPath(SlidePath(i)),
                      ExternalRel("rId2", "hyperlink", ExternalTarget(variant)))

VariantInit ==
    /\ \E n \in 1..MaxSlides, i \in 1..MaxSlides, variant \in ExternalKinds \cup {"gone"},
          idScheme \in {"masterFirst", "slidesFirst"} :
         /\ i <= n
         /\ src = VariantSource(n, i, variant, idScheme)
    /\ corrupt = {}
    /\ pc = "start"
    /\ slides = <<>>
    /\ idx = 0
    /\ to_process = <<>>
    /\ processed = {}
    /\ deps = {}
    /\ expanded = <<>>
    /\ outs = [i \in 1..MaxSlides |-> NoFile]
    /\ output_files = <<>>
    /\ failed = {}
    /\ error = ""
    /\ LibIdle

VariantSpec == VariantInit /\ [][Next]_vars

TypeOK ==
    /\ pc \in {"start", "loop", "collect", "copy", "pres", "rels", "app",
               "verify", "done"}
    /\ idx \in 0..(MaxSlides + 1)
    /\ failed \subseteq 1..MaxSlides
    /\ error \in {"", "invalid", "no_slides"}

-----------------------------------------------------------------------------
(* The relationship graph of a container, independently of the walk *)

IsRelsPath(p) == p # <<>> /\ p[Len(p)] = ".rels"

\* the paths the internal relationships of part p lead to, as a set: the
\* order in which the relationship index lists them plays no part
Targets(zip, p) ==
    IF GetRelsPath(p) \notin NameList(zip) THEN {}
    ELSE LET rels == Read(zip, GetRelsPath(p)).rels IN
         {ResolvePath(p, rels[i].Target) :
            i \in {j \in DOMAIN rels : /\ rels[j].Target # <<>>
                                       /\ ~StartsWithHttp(rels[j].Target)}} \ {<<>>}

RECURSIVE ReachFrom(_, _, _)
\* the least set that contains S and the targets of its members; `fresh` are
\* the members of S whose targets have not been added yet
ReachFrom(zip, S, fresh) ==
    IF fresh = {} THEN S
    ELSE LET N == (UNION {Targets(zip, p) : p \in fresh}) \ S
         IN ReachFrom(zip, S \cup N, N)

\* the paths reachable from p along relationships
Reach(zip, p) == ReachFrom(zip, {p}, {p})

\* the relationship-index parts that exist for the parts of S
RelsOf(zip, S) == {GetRelsPath(p) : p \in S} \cap NameList(zip)

ThemeFiles(zip) == {f \in NameList(zip) : ContainsSlashTheme(f)}

Range(seq) == {seq[i] : i \in DOMAIN seq}

NoDuplicates(seq) == \A i, j \in DOMAIN seq : i # j => seq[i] # seq[j]

\* the unit being built, and the units split reported as created
Building == pc \in {"collect", "copy", "pres", "rels", "app", "verify"}
Produced == Range(output_files)
OutNames(i) == NameList(outs[i].entries)

-----------------------------------------------------------------------------
(* C1 *)

\* The package of the claim, seen from unit A: A references exactly layout L
\* and media X, L exactly master M, M exactly theme T, T and X nothing, and T
\* is the package's only theme.
C1_Scenario(A, L, M, T, X) ==
    /\ Cardinality({A, L, M, T, X}) = 5
    /\ {A, L, M, T, X} \subseteq NameList(src)
    /\ Targets(src, A) = {L, X}
    /\ Targets(src, L) = {M}
    /\ Targets(src, M) = {T}
    /\ Targets(src, T) = {}
    /\ Targets(src, X) = {}
    /\ ThemeFiles(src) = {T}

\* C1: when the walk for a unit A has returned (pc = "copy"), its result is
\* the set of paths reachable from A, the relationship-index parts of those,
\* the core structure files and the theme files, whatever the order in which
\* the relationship indexes list their relationships; and in the package of
\* the claim (A -> L -> M -> T, A -> X) it is {A, L, M, T, X} with their
\* relationship-index parts and the core structure files of the package.
C1_ClosureCorrect ==
    pc = "copy" =>
        LET A == slides[idx].path IN
        /\ deps = Reach(src, A) \cup RelsOf(src, Reach(src, A))
                    \cup (CoreFiles \cap NameList(src)) \cup ThemeFiles(src)
        /\ \A L \in Targets(src, A), X \in Targets(src, A) :
             \A M \in Targets(src, L) : \A T \in Targets(src, M) :
                C1_Scenario(A, L, M, T, X) =>
                    /\ {p \in deps : ~IsRelsPath(p)}
                         = {A, L, M, T, X}
                           \cup {p \in CoreFiles \cap NameList(src) : ~IsRelsPath(p)}
                    /\ {p \in deps : IsRelsPath(p)}
                         = RelsOf(src, {A, L, M})
                           \cup {p \in CoreFiles \cap NameList(src) : IsRelsPath(p)}

\* the walk has returned for a unit in the package of the claim whose
\* relationship index lists the media before the layout
C1_Witness ==
    /\ pc = "copy"
    /\ LET A == slides[idx].path IN
       /\ \E L \in Targets(src, A), X \in Targets(src, A) :
            \E M \in Targets(src, L) : \E T \in Targets(src, M) :
                C1_Scenario(A, L, M, T, X)
       /\ Read(src, GetRelsPath(A)).rels[1].Type = "image"

-----------------------------------------------------------------------------
(* C2 *)

\* no part is expanded twice, and when the walk has returned the parts it
\* expanded are exactly the paths reachable from the unit
C2_ExpandedOnce ==
    /\ NoDuplicates(expanded)
    /\ pc = "copy" => Range(expanded) = Reach(src, slides[idx].path)

\* an iteration of the loop either expands a part that was not yet expanded
\* or, expanding nothing, shortens the queue: the pair (number of reachable
\* parts not yet expanded, length of the queue) decreases in the
\* lexicographic order, which is well-founded
C2_Decreases ==
    (pc = "collect" /\ pc' = "collect") =>
        LET R == Reach(src, slides[idx].path) IN
        \/ /\ processed \subseteq processed'
           /\ Cardinality(R \ processed') < Cardinality(R \ processed)
        \/ /\ processed' = processed
           /\ Len(to_process') < Len(to_process)

\* C2: on every graph of the model (shared nodes, a master listing its
\* layouts back, a part pointing at itself) the walk ends (every iteration
\* decreases a well-founded measure, and the loop has an iteration to run
\* until its queue is empty, when it returns), and it expands each reachable
\* part exactly once.
C2_WalkTerminatesExpandingOnce ==
    /\ []C2_ExpandedOnce
    /\ [][C2_Decreases]_vars

\* a walk has returned that met a part pointing at itself and a part it had
\* put on the queue twice (reached from two parts before it was expanded)
C2_Witness ==
    /\ pc = "copy"
    /\ \E p \in processed : p \in Targets(src, p)
    /\ \E p, q \in processed :
         /\ p # q
         /\ \E t \in Targets(src, p) \cap Targets(src, q) : t \notin {p, q}

-----------------------------------------------------------------------------
(* C3 *)

\* the relationship index of unit i references a path that is not in the package
HasDangling(i) == ~(Targets(src, slides[i].path) \subseteq NameList(src))

\* everything unit i reaches is in the package and can be read
UnitClean(i) ==
    /\ Reach(src, slides[i].path) \subseteq NameList(src)
    /\ Reach(src, slides[i].path) \cap corrupt = {}

\* C3: splitting a package of 3 units where the relationship index of unit 2
\* references a media part that is not in the package reports unit 2 as
\* failed (it is not in the returned list) and produces units 1 and 3.
C3_DanglingUnitFails ==
    (pc = "done" /\ Len(slides) = 3 /\ HasDangling(2) /\ UnitClean(1) /\ UnitClean(3))
        => /\ 2 \notin Produced
           /\ 2 \in failed
           /\ {1, 3} \subseteq Produced

-----------------------------------------------------------------------------
(* C4 *)

\* C4: for every package split produced, the closure of its unit, computed
\* in the produced package, is exactly the set of parts of that package.
C4_SplitIdempotent ==
    pc = "done" =>
        \A i \in Produced :
            CollectAllDependencies(outs[i].entries, {}, slides[i].path) = OutNames(i)

-----------------------------------------------------------------------------
(* C5 *)

\* the parts each unit reaches in the source package
UnitReach == [j \in 1..Len(slides) |-> Reach(src, slides[j].path)]

\* with R the parts each unit reaches: p is reached by unit j and by no other
OnlyFrom(R, p, j) ==
    /\ p \in R[j]
    /\ \A k \in (DOMAIN R) \ {j} : p \notin R[k]

-----------------------------------------------------------------------------
(* C6 *)

\* C6: the manifest of every package split produced lists exactly one slide,
\* with the numeric identifier 256 and the relationship identifier rId1.
C6_OneCanonicalReference ==
    \A i \in Produced :
        LET pres == Read(outs[i].entries, PresPath) IN
        /\ pres.hasLst
        /\ Len(pres.sldIdLst) = 1
        /\ pres.sldIdLst[1].id = 256
        /\ pres.sldIdLst[1].rid = "rId1"

\* a unit was produced whose identifiers in the source were other ones
C6_Witness ==
    \E i \in Produced :
        /\ slides[i].slide_id # 256
        /\ slides[i].rel_id # "rId1"
        /\ Len(Read(src, PresPath).sldIdLst) > 1

-----------------------------------------------------------------------------
(* C7 *)

\* C7: in every package split produced, the relationship identifier of the
\* manifest's reference resolves, in the rewritten relationship index (as
\* the splitter itself resolves identifiers: the first relationship with
\* that Id), to the unit's main part, which is in the package.
C7_ReferenceResolvesToUnit ==
    \A i \in Produced :
        LET zip  == outs[i].entries
            pres == Read(zip, PresPath)
            rels == Read(zip, PresRelsPath).rels
            k    == FirstRel(rels, pres.sldIdLst[1].rid)
        IN /\ k # 0
           /\ <<"ppt", "/">> \o rels[k].Target = slides[i].path
           /\ slides[i].path \in OutNames(i)

-----------------------------------------------------------------------------
(* C8 *)

\* C8: in the relationship index split rewrites, the relationship
\* identifiers are pairwise distinct.
C8_DistinctRelationshipIds ==
    \A i \in Produced :
        LET rels == Read(outs[i].entries, PresRelsPath).rels
        IN NoDuplicates([k \in DOMAIN rels |-> rels[k].Id])

-----------------------------------------------------------------------------
(* C9 *)

\* C9: no path is written twice into a container split builds.
C9_UniquePaths ==
    \A i \in 1..MaxSlides :
        NoDuplicates([k \in DOMAIN outs[i].entries |-> outs[i].entries[k].name])

-----------------------------------------------------------------------------
(* C10 *)

\* C10: no file is left at the destination of a unit split failed for; a
\* destination holds a complete, verified container or nothing.
C10_NoFileLeftOnFailure ==
    /\ \A i \in failed : ~outs[i].exists
    /\ pc = "done" =>
          \A i \in 1..MaxSlides :
              outs[i].exists => (i \in Produced /\ VerifyOutput(outs[i].entries))

-----------------------------------------------------------------------------
(* Presentations, as PPTXSplitMerge (src/pptx_split_merge.py) handles them   *)
(* through python-pptx: a presentation is the sequence of its slides.        *)

\* the state of split() while a presentation-level operation runs
SplitIdle ==
    /\ src = <<>>
    /\ corrupt = {}
    /\ pc = "idle"
    /\ slides = <<>>
    /\ idx = 0
    /\ to_process = <<>>
    /\ processed = {}
    /\ deps = {}
    /\ expanded = <<>>
    /\ outs = [k \in 1..MaxSlides |-> NoFile]
    /\ output_files = <<>>
    /\ failed = {}
    /\ error = ""

\* the relationship identifier a picture shape refers to its image by
PictureRId == "rId2"

\* The relationships of a slide part that add_slide has just created: the
\* one to its layout
LayoutRelOnly(layout) == [id \in {"rId1"} |-> <<"layout", layout>>]

\* The p-th slide of the presentation stored in file f: its layout (owned by
\* f), its shapes, the relationships of its part, its notes.  The slides at
\* odd positions hold a picture, whose element refers to the image by the
\* relationship identifier rId2 (`embed`); the others hold a text box.
InputSlide(f, p) ==
    LET layout == [owner |-> f, master |-> 1] IN
    [layout |-> layout,
     shapes |-> <<[file |-> f, pos |-> p,
                   embed |-> IF p % 2 = 1 THEN PictureRId ELSE ""]>>,
     rels   |-> IF p % 2 = 1
                THEN [id \in {"rId1", PictureRId} |->
                        IF id = "rId1" THEN <<"layout", layout>>
                        ELSE <<"image", f, p>>]
                ELSE LayoutRelOnly(layout),
     notes  |-> "notes"]

\* a presentation of n slides stored in file f
InputPrs(f, n) == [p \in 1..n |-> InputSlide(f, p)]

\* Presentation(): the default template, which holds no slide
NewPresentation == <<>>

\* CloneSlide with the bug of dropping the shapes
CloneSlideEmpty(source_slide) ==
    [layout |-> source_slide.layout, shapes |-> <<>>,
     rels |-> LayoutRelOnly(source_slide.layout), notes |-> ""]

\* _clone_slide: add_slide on the source slide's layout, the placeholders
\* removed, the element of every shape of the source deep-copied in order
\* (_clone_shape).  The relationships of the source slide's part and its
\* notes are not copied.
CloneSlide(source_slide) ==
    [layout |-> source_slide.layout,
     shapes |-> source_slide.shapes,
     rels   |-> LayoutRelOnly(source_slide.layout),
     notes  |-> ""]

\* _clone_slide_with_master: as _clone_slide, on the first layout of `master`
CloneSlideWithMaster(source_slide, base_owner) ==
    [layout |-> [owner |-> base_owner, master |-> 1],
     shapes |-> source_slide.shapes,
     rels   |-> LayoutRelOnly([owner |-> base_owner, master |-> 1]),
     notes  |-> ""]

Max(a, b) == IF a >= b THEN a ELSE b
Min(a, b) == IF a <= b THEN a ELSE b

InputFile == <<"in">>
PartFile(n) == <<"part", n>>
RangeFile(start, end) == <<"range", start, end>>

-----------------------------------------------------------------------------
(* split_pptx and split_pptx_by_range *)

SplitLibInit ==
    /\ SplitIdle
    /\ \/ \E n \in 0..MaxSlides, k \in 0..(MaxSlides + 1) :
            /\ call = [op |-> "split_pptx", input_file |-> InputFile,
                       slides_per_file |-> k, ranges |-> <<>>]
            /\ disk = (InputFile :> InputPrs(InputFile, n))
       \/ \E n \in 0..MaxRangeSlides, len \in 0..MaxRanges :
            \E ranges \in [1..len -> (0..(n + 1)) \X (0..(n + 1))] :
                /\ call = [op |-> "split_pptx_by_range", input_file |-> InputFile,
                           slides_per_file |-> 0, ranges |-> ranges]
                /\ disk = (InputFile :> InputPrs(InputFile, n))
    /\ lpc = "begin"
    /\ prs = <<>>
    /\ new_prs = <<>>
    /\ pos = 0
    /\ slide_idx = 0
    /\ file_count = 0
    /\ slide_files = <<>>
    /\ temp_dir = NoDir
    /\ taken = <<>>
    /\ ret = <<>>

\* split_pptx, lines 59 to 71: the presentation is loaded; the computation of
\* num_output_files divides by slides_per_file
SplitLoad ==
    /\ lpc = "begin"
    /\ call.op = "split_pptx"
    /\ prs' = disk[call.input_file]
    /\ file_count' = 1
    /\ pos' = 0
    /\ lpc' = IF call.slides_per_file = 0 THEN "raised" ELSE "part"
    /\ UNCHANGED <<splitVars, call, disk, new_prs, slide_idx, slide_files,
                   temp_dir, taken, ret>>

\* the head of `for i in range(0, total_slides, slides_per_file)`: a new
\* presentation for the next part, or the return of output_files
SplitPartBegin ==
    /\ lpc = "part"
    /\ IF pos < Len(prs)
       THEN /\ new_prs' = NewPresentation
            /\ slide_idx' = pos
            /\ lpc' = "clone"
       ELSE /\ lpc' = "returned"
            /\ UNCHANGED <<new_prs, slide_idx>>
    /\ UNCHANGED <<splitVars, call, disk, prs, pos, file_count, slide_files,
                   temp_dir, taken, ret>>

\* one iteration of `for slide_idx in range(i, slide_range)`
SplitClone ==
    /\ lpc = "clone"
    /\ slide_idx < Min(pos + call.slides_per_file, Len(prs))
    /\ new_prs' = Append(new_prs, CloneSlide(prs[slide_idx + 1]))
    /\ slide_idx' = slide_idx + 1
    /\ UNCHANGED <<splitVars, call, lpc, disk, prs, pos, file_count,
                   slide_files, temp_dir, taken, ret>>

\* the part is saved under _part<file_count> and recorded
SplitPartSave ==
    /\ lpc = "clone"
    /\ slide_idx >= Min(pos + call.slides_per_file, Len(prs))
    /\ disk' = (PartFile(file_count) :> new_prs) @@ disk
    /\ ret' = Append(ret, PartFile(file_count))
    /\ file_count' = file_count + 1
    /\ pos' = pos + call.slides_per_file
    /\ lpc' = "part"
    /\ UNCHANGED <<splitVars, call, prs, new_prs, slide_idx, slide_files, temp_dir, taken>>

\* the clamped bounds of the range the loop of split_pptx_by_range is at
RangeStart == Max(1, call.ranges[pos][1])

\* RangeEnd with the bug of taking the end of the range as exclusive
RangeEndExclusive == Min(Len(prs), call.ranges[pos][2] - 1)

RangeEnd == Min(Len(prs), call.ranges[pos][2])

\* split_pptx_by_range, lines 132 to 136
RangeLoad ==
    /\ lpc = "begin"
    /\ call.op = "split_pptx_by_range"
    /\ prs' = disk[call.input_file]
    /\ pos' = 1
    /\ lpc' = "range"
    /\ UNCHANGED <<splitVars, call, disk, new_prs, slide_idx, file_count,
                   slide_files, temp_dir, taken, ret>>

\* the head of `for idx, (start, end) in enumerate(ranges, 1)`: the range is
\* clamped; an empty one is skipped
RangeBegin ==
    /\ lpc = "range"
    /\ IF pos > Len(call.ranges)
       THEN /\ lpc' = "returned"
            /\ UNCHANGED <<new_prs, slide_idx, pos>>
       ELSE IF RangeStart > RangeEnd
       THEN /\ pos' = pos + 1
            /\ UNCHANGED <<lpc, new_prs, slide_idx>>
       ELSE /\ new_prs' = NewPresentation
            /\ slide_idx' = RangeStart - 1
            /\ lpc' = "rclone"
            /\ UNCHANGED pos
    /\ UNCHANGED <<splitVars, call, disk, prs, file_count, slide_files,
                   temp_dir, taken, ret>>

\* one iteration of `for slide_idx in range(start - 1, end)`
RangeClone ==
    /\ lpc = "rclone"
    /\ slide_idx < RangeEnd
    /\ new_prs' = Append(new_prs, CloneSlide(prs[slide_idx + 1]))
    /\ slide_idx' = slide_idx + 1
    /\ UNCHANGED <<splitVars, call, lpc, disk, prs, pos, file_count,
                   slide_files, temp_dir, taken, ret>>

\* the range is saved under _range<start>-<end> and recorded
RangeSave ==
    /\ lpc = "rclone"
    /\ slide_idx >= RangeEnd
    /\ disk' = (RangeFile(RangeStart, RangeEnd) :> new_prs) @@ disk
    /\ ret' = Append(ret, RangeFile(RangeStart, RangeEnd))
    /\ pos' = pos + 1
    /\ lpc' = "range"
    /\ UNCHANGED <<splitVars, call, prs, new_prs, slide_idx, file_count,
                   slide_files, temp_dir, taken>>

SplitLibNext ==
    \/ SplitLoad
    \/ SplitPartBegin
    \/ SplitClone
    \/ SplitPartSave
    \/ RangeLoad
    \/ RangeBegin
    \/ RangeClone
    \/ RangeSave

SplitLibSpec == SplitLibInit /\ [][SplitLibNext]_vars

-----------------------------------------------------------------------------
(* _resolve_path on its own, called as the walk calls it *)

\* the parts whose relationship targets are resolved
OwnerPaths == {<<"top.xml">>, PresPath, SlidePath(1), GetRelsPath(LayoutPath(1))}

\* the segments a target is made of
TargetSegments == {<<"..">>, <<".">>, <<>>, <<"media">>, <<"image1.png">>}

ResolveInit ==
    /\ SplitIdle
    /\ \E start \in OwnerPaths, current \in OwnerPaths, len \in 1..MaxSegments :
         \E segs \in [1..len -> TargetSegments] :
            call = [op |-> "_resolve_path", start |-> start, current |-> current,
                    target |-> JoinSlash(segs)]
    /\ lpc = "begin"
    /\ disk = <<>>
    /\ prs = <<>>
    /\ new_prs = <<>>
    /\ pos = 0
    /\ slide_idx = 0
    /\ file_count = 0
    /\ slide_files = <<>>
    /\ temp_dir = NoDir
    /\ taken = <<>>
    /\ ret = <<>>

\* line 1894: dep_path = self._resolve_path(current, target)
ResolveCall ==
    /\ lpc = "begin"
    /\ call.op = "_resolve_path"
    /\ ret' = <<ResolvePath(call.current, call.target)>>
    /\ lpc' = "returned"
    /\ UNCHANGED <<splitVars, call, disk, prs, new_prs, pos, slide_idx, file_count,
                   slide_files, temp_dir, taken>>

ResolveNext == ResolveCall

ResolveSpec == ResolveInit /\ [][ResolveNext]_vars

-----------------------------------------------------------------------------
(* Merging: PPTXSplitMerge.merge_pptx (src/pptx_split_merge.py), which      *)
(* works on presentations, and PPTXMerger (src/pptx_cli_tool.py), which     *)
(* works on the parts of the packages.                                      *)

\* The names input files can have, in lexicographic order
FileNames == <<"a.pptx", "b.pptx", "c.pptx", "d.pptx", "e.pptx">>
File(k) == <<FileNames[k]>>
OutputFile == <<"merged.pptx">>

\* position of a file name in the lexicographic order
Rank(f) == CHOOSE k \in DOMAIN FileNames : File(k) = f

\* sorted(...) of a list of paths
Sorted(files) == SortSeq(files, LAMBDA x, y : Rank(x) < Rank(y))

\* A part of a package: its bytes and its references (the slide list of the
\* manifest, the relationships of another part)
Part(bytes, refs) == [bytes |-> bytes, refs |-> refs]

\* The package stored in input file f: a manifest listing n slides, the
\* slides, each related to the theme, and the theme with bytes `theme`.  A
\* reference of the manifest carries the numeric identifier of the slide and
\* the number N of its relationship identifier rIdN (rId1 being the master's).
UnitPackage(f, n, theme) ==
    [path \in {PresPath, ThemePath(1)} \cup {SlidePath(p) : p \in 1..n} |->
        IF path = PresPath
        THEN Part(<<"manifest">>,
                  [p \in 1..n |-> [id |-> FirstSlideId + p - 1, rid |-> p + 1,
                                    target |-> SlidePath(p)]])
        ELSE IF path = ThemePath(1)
        THEN Part(<<"theme", theme>>, <<>>)
        ELSE Part(<<"slide", f, CHOOSE p \in 1..n : SlidePath(p) = path>>,
                  <<[id |-> 0, target |-> ThemePath(1)]>>)]

Injective(seq) == \A a, b \in DOMAIN seq : a # b => seq[a] # seq[b]

\* What can go wrong in the environment of PPTXMerger.merge: the base file
\* is not a readable archive ("extract"), or the output file cannot be
\* written ("write")
MergerFaults == {"none", "extract", "write"}

MergeInit ==
    /\ SplitIdle
    /\ \E len \in 0..MaxFiles :
         \E files \in [1..len -> {File(k) : k \in 1..(MaxFiles + 1)}],
            units \in [1..len -> 1..MaxUnits] :
            /\ Injective(files)
            /\ \/ \E keep \in BOOLEAN :
                    /\ call = [op |-> "merge_pptx", input_files |-> files,
                               output_file |-> OutputFile,
                               keep_source_theme |-> keep]
                    /\ disk = [f \in {files[k] : k \in 1..len} |->
                                 InputPrs(f, units[CHOOSE k \in 1..len : files[k] = f])]
               \/ \E themes \in [1..len -> {"tA", "tB"}] :
                    /\ \E fault \in MergerFaults :
                         call = [op |-> "PPTXMerger", input_files |-> files,
                                 output_file |-> OutputFile,
                                 keep_source_theme |-> TRUE, fault |-> fault]
                    /\ disk = [f \in {files[k] : k \in 1..len} |->
                                 LET k == CHOOSE k \in 1..len : files[k] = f
                                 IN UnitPackage(f, units[k], themes[k])]
    /\ lpc = "begin"
    /\ prs = <<>>
    /\ new_prs = <<>>
    /\ pos = 0
    /\ slide_idx = 0
    /\ file_count = 0
    /\ slide_files = <<>>
    /\ temp_dir = NoDir
    /\ taken = <<>>
    /\ ret = <<>>

\* merge_pptx, lines 196 to 201: no input raises; else the first input is
\* loaded as the base
MergeLoad ==
    /\ lpc = "begin"
    /\ call.op = "merge_pptx"
    /\ IF call.input_files = <<>>
       THEN /\ lpc' = "raised"
            /\ UNCHANGED <<new_prs, pos, taken>>
       ELSE /\ new_prs' = disk[call.input_files[1]]
            /\ taken' = <<call.input_files[1]>>
            /\ pos' = 2
            /\ lpc' = "merge"
    /\ UNCHANGED <<splitVars, call, disk, prs, slide_idx, file_count,
                   slide_files, temp_dir, ret>>

\* the head of `for input_file in input_files[1:]`: the next input is loaded
MergeOpen ==
    /\ lpc = "merge"
    /\ pos <= Len(call.input_files)
    /\ prs' = disk[call.input_files[pos]]
    /\ taken' = Append(taken, call.input_files[pos])
    /\ slide_idx' = 0
    /\ lpc' = "mclone"
    /\ UNCHANGED <<splitVars, call, disk, new_prs, pos, file_count,
                   slide_files, temp_dir, ret>>

\* one iteration of `for slide in source_prs.slides`
MergeClone ==
    /\ lpc = "mclone"
    /\ slide_idx < Len(prs)
    /\ new_prs' = Append(new_prs,
                         IF call.keep_source_theme
                         THEN CloneSlide(prs[slide_idx + 1])
                         ELSE CloneSlideWithMaster(prs[slide_idx + 1],
                                                   call.input_files[1]))
    /\ slide_idx' = slide_idx + 1
    /\ UNCHANGED <<splitVars, call, lpc, disk, prs, pos, file_count,
                   slide_files, temp_dir, taken, ret>>

\* the slides of the input are exhausted
MergeNext ==
    /\ lpc = "mclone"
    /\ slide_idx >= Len(prs)
    /\ pos' = pos + 1
    /\ lpc' = "merge"
    /\ UNCHANGED <<splitVars, call, disk, prs, new_prs, slide_idx, file_count,
                   slide_files, temp_dir, taken, ret>>

\* the base is saved as the output file, whose path is returned
MergeSave ==
    /\ lpc = "merge"
    /\ pos > Len(call.input_files)
    /\ disk' = (call.output_file :> new_prs) @@ disk
    /\ ret' = <<call.output_file>>
    /\ lpc' = "returned"
    /\ UNCHANGED <<splitVars, call, prs, new_prs, pos, slide_idx, file_count,
                   slide_files, temp_dir, taken>>

\* PPTXMerger.__init__
MergerInit ==
    /\ lpc = "begin"
    /\ call.op = "PPTXMerger"
    /\ slide_files' = Sorted(call.input_files)
    /\ lpc' = "minit"
    /\ UNCHANGED <<splitVars, call, disk, prs, new_prs, pos, slide_idx,
                   file_count, temp_dir, taken, ret>>

\* PPTXMerger.merge, lines 788 to 800: no file returns None; else the
\* temporary directory is created and the first file is extracted into it,
\* which raises when the file is not a readable archive
MergerExtractBase ==
    /\ lpc = "minit"
    /\ IF slide_files = <<>>
       THEN /\ lpc' = "returned"
            /\ UNCHANGED <<temp_dir, pos, taken>>
       ELSE IF call.fault = "extract"
       THEN /\ temp_dir' = Dir(<<>>)
            /\ taken' = <<slide_files[1]>>
            /\ lpc' = "mfinally_raise"
            /\ UNCHANGED pos
       ELSE /\ temp_dir' = Dir(disk[slide_files[1]])
            /\ taken' = <<slide_files[1]>>
            /\ pos' = 2
            /\ lpc' = "madd"
    /\ UNCHANGED <<splitVars, call, disk, prs, new_prs, slide_idx, file_count,
                   slide_files, ret>>

\* _add_slide_to_base, which is `pass`: the directory is left as it is
AddSlideToBase(base_dir, slide_file, slide_num) == base_dir

\* one iteration of `for idx, slide_file in enumerate(self.slide_files[1:], 2)`
MergerAddSlide ==
    /\ lpc = "madd"
    /\ pos <= Len(slide_files)
    /\ temp_dir' = Dir(AddSlideToBase(temp_dir.files, slide_files[pos], pos))
    /\ taken' = Append(taken, slide_files[pos])
    /\ pos' = pos + 1
    /\ UNCHANGED <<splitVars, call, lpc, disk, prs, new_prs, slide_idx,
                   file_count, slide_files, ret>>

\* _create_final_pptx and the return statement (lines 806 to 810); the
\* writing raises when the output file cannot be opened
MergerCreateFinal ==
    /\ lpc = "madd"
    /\ pos > Len(slide_files)
    /\ IF call.fault = "write"
       THEN /\ lpc' = "mfinally_raise"
            /\ UNCHANGED <<disk, ret>>
       ELSE /\ disk' = (call.output_file :> temp_dir.files) @@ disk
            /\ ret' = <<call.output_file>>
            /\ lpc' = "mfinally_return"
    /\ UNCHANGED <<splitVars, call, prs, new_prs, pos, slide_idx, file_count,
                   slide_files, temp_dir, taken>>

\* MergerCleanup with the bug of removing the directory only after a
\* successful merge
MergerCleanupOnSuccess ==
    /\ lpc \in {"mfinally_return", "mfinally_raise"}
    /\ temp_dir' = IF lpc = "mfinally_return" THEN NoDir ELSE temp_dir
    /\ lpc' = IF lpc = "mfinally_return" THEN "returned" ELSE "raised"
    /\ UNCHANGED <<splitVars, call, disk, prs, new_prs, pos, slide_idx,
                   file_count, slide_files, taken, ret>>

\* the finally clause (lines 812 to 814): the directory is removed, then the
\* value is returned or the exception goes on to the caller
MergerCleanup ==
    /\ lpc \in {"mfinally_return", "mfinally_raise"}
    /\ temp_dir' = NoDir
    /\ lpc' = IF lpc = "mfinally_return" THEN "returned" ELSE "raised"
    /\ UNCHANGED <<splitVars, call, disk, prs, new_prs, pos, slide_idx,
                   file_count, slide_files, taken, ret>>

MergeNextStep ==
    \/ MergeLoad
    \/ MergeOpen
    \/ MergeClone
    \/ MergeNext
    \/ MergeSave
    \/ MergerInit
    \/ MergerExtractBase
    \/ MergerAddSlide
    \/ MergerCreateFinal
    \/ MergerCleanup

MergeSpec == MergeInit /\ [][MergeNextStep]_vars

-----------------------------------------------------------------------------
(* C11 *)

\* the references the manifest of the source lists
ManifestRefs == Read(src, PresPath).sldIdLst

\* C11: when split has returned, the units it reported as created plus the
\* units it reported as failed are as many as the references the manifest
\* lists; a reference whose relationship identifier matches no relationship
\* is counted as a failure.
C11_EveryReferenceAccounted ==
    pc = "done" =>
        Len(output_files) + Cardinality(failed) = Len(ManifestRefs)

-----------------------------------------------------------------------------
(* C12 *)

\* C12: splitting a package that opens correctly and whose manifest lists
\* no unit ends with the error "no slides", returns nothing and never
\* creates an output container.
C12_NoContentUnitsFails ==
    (AnalyzeValid(src, corrupt) /\ ManifestRefs = <<>>) =>
        /\ \A k \in 1..MaxSlides : ~outs[k].exists
        /\ output_files = <<>>
        /\ pc = "done" => error = "no_slides"

\* split has returned for a package whose manifest has a slide list with no
\* entry
C12_Witness ==
    /\ pc = "done"
    /\ AnalyzeValid(src, corrupt)
    /\ Read(src, PresPath).hasLst
    /\ ManifestRefs = <<>>
    /\ error = "no_slides"

-----------------------------------------------------------------------------
(* C13 *)

\* the slide list of the manifest of a package
Manifest(pkg) == pkg[PresPath].refs

\* the paths of the theme parts of a package
ThemePaths(pkg) == {p \in DOMAIN pkg : pkg[p].bytes[1] = "theme"}

\* the bytes of the k-th unit of a package, the path of the theme its
\* relationship leads to, and the bytes of that theme
UnitBytes(pkg, k) == pkg[Manifest(pkg)[k].target].bytes
UnitThemePath(pkg, k) == pkg[Manifest(pkg)[k].target].refs[1].target
UnitTheme(pkg, k) == pkg[UnitThemePath(pkg, k)].bytes

\* PPTXMerger has merged two packages of one unit each
MergedTwoSingleUnits ==
    /\ call.op = "PPTXMerger"
    /\ lpc = "returned"
    /\ Len(call.input_files) = 2
    /\ \A k \in 1..2 : Len(Manifest(disk[call.input_files[k]])) = 1

\* the single-unit input f has its unit, resolving to its own theme bytes, in
\* the package R
UnitKept(R, f) ==
    \E k \in DOMAIN Manifest(R) :
        /\ UnitBytes(R, k) = UnitBytes(disk[f], 1)
        /\ UnitThemePath(R, k) \in DOMAIN R
        /\ UnitTheme(R, k) = UnitTheme(disk[f], 1)

\* C13: merging two single-unit packages whose themes, at the same path,
\* differ in bytes gives a package with two theme parts holding the two
\* themes, each unit resolving to its own, and two manifest entries with
\* different identifiers above 255.
C13_MergeKeepsBothThemes ==
    (/\ MergedTwoSingleUnits
     /\ UnitTheme(disk[call.input_files[1]], 1) # UnitTheme(disk[call.input_files[2]], 1))
    => LET R == disk[call.output_file] IN
       /\ Len(Manifest(R)) = 2
       /\ Cardinality(ThemePaths(R)) = 2
       /\ \A k \in 1..2 : UnitKept(R, call.input_files[k])
       /\ Manifest(R)[1].id # Manifest(R)[2].id
       /\ \A k \in 1..2 : Manifest(R)[k].id > 255

-----------------------------------------------------------------------------
(* C14 *)

\* C14: merging two single-unit packages whose themes are byte-identical
\* gives a package with one theme part, to which both units resolve.
C14_MergeDeduplicatesTheme ==
    (/\ MergedTwoSingleUnits
     /\ UnitTheme(disk[call.input_files[1]], 1) = UnitTheme(disk[call.input_files[2]], 1))
    => LET R == disk[call.output_file] IN
       /\ Cardinality(ThemePaths(R)) = 1
       /\ Len(Manifest(R)) = 2
       /\ \A k \in 1..2 : UnitKept(R, call.input_files[k])
       /\ UnitThemePath(R, 1) = UnitThemePath(R, 2)

-----------------------------------------------------------------------------
(* C15 *)

\* the contents of the units of a stored file, in manifest order
Units(content) ==
    IF call.op = "merge_pptx" THEN [t \in DOMAIN content |-> content[t].shapes]
    ELSE [k \in DOMAIN Manifest(content) |-> UnitBytes(content, k)]

RECURSIVE ConcatUnits(_)
\* the units of the files of a list, file after file
ConcatUnits(files) ==
    IF files = <<>> THEN <<>>
    ELSE Units(disk[Head(files)]) \o ConcatUnits(Tail(files))

\* C15: the result of a merge lists the units of the base, then the units
\* of each further input the merge took, in the order it took them, each
\* once and in document order; while an input is being merged the base
\* holds the units of the inputs before it and the first units of that one.
C15_MergeAppendsEveryUnit ==
    /\ (lpc = "returned" /\ call.input_files # <<>>) =>
          Units(disk[call.output_file]) = ConcatUnits(taken)
    /\ lpc = "mclone" =>
          Units(new_prs)
            = ConcatUnits(SubSeq(taken, 1, Len(taken) - 1))
              \o SubSeq(Units(prs), 1, slide_idx)

-----------------------------------------------------------------------------
(* C16 *)

\* C16: a merge takes its inputs in the order the caller supplied them, the
\* base being the first.
C16_MergeKeepsCallerOrder ==
    lpc = "returned" => taken = call.input_files

-----------------------------------------------------------------------------
(* C17 *)

\* the least q with q * k >= n
CeilDiv(n, k) == CHOOSE q \in 0..n : q * k >= n /\ (q = 0 \/ (q - 1) * k < n)

\* the content of the slides of a presentation, in order
Contents(p) == [t \in DOMAIN p |-> p[t].shapes]

\* the slides of the input at positions from..to
SourceContents(from, to) ==
    [t \in 1..(to - from + 1) |-> disk[InputFile][from + t - 1].shapes]

\* C17: split_pptx with k >= 1 slides per file on N slides returns
\* ceil(N/k) files; the j-th is _part<j> and holds the source slides
\* (j-1)*k+1 .. min(j*k, N) in order; every source slide is in exactly one
\* file.
C17_PartsPartitionTheSlides ==
    (call.op = "split_pptx" /\ lpc = "returned") =>
        LET N == Len(disk[InputFile])
            k == call.slides_per_file
        IN /\ Len(ret) = CeilDiv(N, k)
           /\ DOMAIN disk = {InputFile} \cup {PartFile(j) : j \in 1..Len(ret)}
           /\ \A j \in 1..Len(ret) :
                /\ ret[j] = PartFile(j)
                /\ Contents(disk[ret[j]])
                     = SourceContents((j - 1) * k + 1, Min(j * k, N))
           /\ \A p \in 1..N :
                Cardinality({<<j, t>> \in (1..Len(ret)) \X (1..N) :
                                /\ t <= Len(disk[ret[j]])
                                /\ disk[ret[j]][t].shapes = disk[InputFile][p].shapes}) = 1

\* 3 slides were split 2 per file: two files, the second with one slide
C17_Witness ==
    /\ call.op = "split_pptx"
    /\ lpc = "returned"
    /\ Len(disk[InputFile]) = 3
    /\ call.slides_per_file = 2
    /\ Len(ret) = 2
    /\ Len(disk[ret[2]]) = 1

-----------------------------------------------------------------------------
(* C18 *)

ClampStart(r) == IF r[1] < 1 THEN 1 ELSE r[1]
ClampEnd(r, N) == IF r[2] > N THEN N ELSE r[2]

\* the ranges that are not empty once clamped, in input order
KeptRanges(ranges, N) ==
    SelectSeq(ranges, LAMBDA r : ClampStart(r) <= ClampEnd(r, N))

\* C18: split_pptx_by_range returns one file per range that is not empty
\* once clamped to 1..N, in input order; the file of a range holds the
\* source slides start'..end' in order; an empty range produces no file and
\* does not stop the later ranges.
C18_RangesClampedAndSkipped ==
    (call.op = "split_pptx_by_range" /\ lpc = "returned") =>
        LET N    == Len(disk[InputFile])
            kept == KeptRanges(call.ranges, N)
        IN /\ Len(ret) = Len(kept)
           /\ DOMAIN disk = {InputFile} \cup {ret[j] : j \in 1..Len(ret)}
           /\ \A j \in 1..Len(kept) :
                /\ ret[j] = RangeFile(ClampStart(kept[j]), ClampEnd(kept[j], N))
                /\ Contents(disk[ret[j]])
                     = SourceContents(ClampStart(kept[j]), ClampEnd(kept[j], N))

\* an empty range was skipped and the range after it, which needed clamping,
\* produced its file
C18_Witness ==
    /\ call.op = "split_pptx_by_range"
    /\ lpc = "returned"
    /\ Len(call.ranges) = 2
    /\ call.ranges[1][1] > call.ranges[1][2]
    /\ call.ranges[2][1] < 1
    /\ call.ranges[2][2] > Len(disk[InputFile])
    /\ Len(disk[InputFile]) = 2
    /\ Len(ret) = 1
    /\ Len(disk[ret[1]]) = 2

-----------------------------------------------------------------------------
(* C19 *)

\* C19: the walk returns a closure only for a unit from which no internal
\* relationship leads to a path that is not in the package.
C19_DanglingClosureFails ==
    pc = "copy" => Reach(src, slides[idx].path) \subseteq NameList(src)

-----------------------------------------------------------------------------
(* C20 *)

\* the parts of container zip that can own a relationship index: its parts
\* and the package root (the owner of _rels/.rels)
Owners(zip) == NameList(zip) \cup {<<>>}

\* C20: in every package split produced, every internal relationship of
\* every relationship-index part resolves, from its owner's directory, to a
\* part of the package.
C20_RelationshipsResolve ==
    pc = "done" =>
        \A k \in Produced :
            \A q \in Owners(outs[k].entries) :
                Targets(outs[k].entries, q) \subseteq OutNames(k)

-----------------------------------------------------------------------------
(* C21 *)

\* the paths the relationships of part p that are not external lead to
InternalTargets(zip, p) ==
    IF GetRelsPath(p) \notin NameList(zip) THEN {}
    ELSE LET rels == Read(zip, GetRelsPath(p)).rels IN
         {ResolvePath(p, rels[i].Target) :
            i \in {j \in DOMAIN rels : /\ rels[j].Target # <<>>
                                       /\ rels[j].Mode = "Internal"}} \ {<<>>}

\* the paths external relationships of part p would give if they were
\* resolved as part paths
ExternalPaths(zip, p) ==
    IF GetRelsPath(p) \notin NameList(zip) THEN {}
    ELSE LET rels == Read(zip, GetRelsPath(p)).rels IN
         {ResolvePath(p, rels[i].Target) :
            i \in {j \in DOMAIN rels : rels[j].Mode = "External"}}

RECURSIVE InternalReachFrom(_, _, _)
InternalReachFrom(zip, S, fresh) ==
    IF fresh = {} THEN S
    ELSE LET N == (UNION {InternalTargets(zip, p) : p \in fresh}) \ S
         IN InternalReachFrom(zip, S \cup N, N)

\* the paths reachable from p along internal relationships
InternalReach(zip, p) == InternalReachFrom(zip, {p}, {p})

\* C21: the walk of a unit queues, expands and returns only paths that the
\* internal relationships lead to from the unit; an external relationship,
\* whatever its target looks like, adds no path.
C21_ExternalNeverWalked ==
    pc \in {"collect", "copy"} =>
        LET R == InternalReach(src, slides[idx].path) IN
        /\ Range(to_process) \subseteq R
        /\ Range(expanded) \subseteq R
        /\ deps \subseteq R \cup RelsOf(src, R) \cup (CoreFiles \cap NameList(src))
                      \cup ThemeFiles(src)

\* C21 for the external relationships whose target starts with "http"
C21_HttpNeverWalked ==
    (pc \in {"collect", "copy"}
     /\ \A p \in NameList(src) : \A t \in ExternalPaths(src, p) :
           t = <<"ppt", "/", "slides", "/", "https:", "/", "example.com">>)
    => C21_ExternalNeverWalked

-----------------------------------------------------------------------------
(* C22 *)

\* the segments of the directory of the part o
OwnerDirectory(o) ==
    LET segs == SplitSlash(o) IN SubSeq(segs, 1, Len(segs) - 1)

\* one segment of a target applied to a directory
ApplySegment(dir, seg) ==
    IF seg = <<"..">> THEN SubSeq(dir, 1, Len(dir) - 1)
    ELSE IF seg \in {<<>>, <<".">>} THEN dir
    ELSE Append(dir, seg)

RECURSIVE ApplySegments(_, _)
\* the segments segs applied in order to a directory: the last one is applied
\* to what the ones before it give
ApplySegments(dir, segs) ==
    IF segs = <<>> THEN dir
    ELSE ApplySegment(ApplySegments(dir, SubSeq(segs, 1, Len(segs) - 1)),
                      segs[Len(segs)])

\* the path the target t of a relationship of the part o designates
Designated(o, t) ==
    JoinSlash(ApplySegments(IF StartsWithSlash(t) THEN <<>> ELSE OwnerDirectory(o),
                            SplitSlash(t)))

\* C22: _resolve_path gives the directory of the owner with the segments of
\* the target applied in order, from the package root when the target starts
\* with "/", whatever part the walk started from.
C22_ResolvesAgainstOwner ==
    lpc = "returned" => ret = <<Designated(call.current, call.target)>>

\* C22 for the targets that do not start with "/"
C22_RelativeResolvesAgainstOwner ==
    (lpc = "returned" /\ ~StartsWithSlash(call.target)) =>
        ret = <<Designated(call.current, call.target)>>

\* C22 for the targets that start with "/" and have no "..", "." or empty
\* segment after it
C22_PlainAbsoluteResolvesFromRoot ==
    (/\ lpc = "returned"
     /\ StartsWithSlash(call.target)
     /\ \A k \in 2..Len(SplitSlash(call.target)) :
           SplitSlash(call.target)[k] \notin {<<"..">>, <<".">>, <<>>}) =>
        ret = <<Designated(call.current, call.target)>>

-----------------------------------------------------------------------------
(* C23 *)

\* the relationships of an index that lead to a content unit, and the others
UnitRels(rels) == SelectSeq(rels, LAMBDA r : r.Type = "slide")
OtherRels(rels) == SelectSeq(rels, LAMBDA r : r.Type # "slide")

\* C23: the relationship index of the manifest of every package split
\* produced holds every relationship of the source index that does not lead
\* to a content unit, with its identifier, type and target, and exactly one
\* relationship that leads to a content unit: the one of the package's unit,
\* under the identifier the manifest refers to.
C23_IndexKeepsAllButOtherUnits ==
    \A i \in Produced :
        LET out    == Read(outs[i].entries, PresRelsPath).rels
            source == Read(src, PresRelsPath).rels
            pres   == Read(outs[i].entries, PresPath)
        IN /\ OtherRels(out) = OtherRels(source)
           /\ Len(UnitRels(out)) = 1
           /\ UnitRels(out)[1].Target = slides[i].target
           /\ UnitRels(out)[1].Id = pres.sldIdLst[1].rid

\* a unit of a package of several units was produced, whose source index
\* lists the other units and relationships to a master and a theme
C23_Witness ==
    \E i \in Produced :
        LET source == Read(src, PresRelsPath).rels IN
        /\ Len(UnitRels(source)) > 1
        /\ \E k \in DOMAIN source : source[k].Type = "slideMaster"
        /\ \E k \in DOMAIN source : source[k].Type = "theme"

-----------------------------------------------------------------------------
(* C24 *)

\* the parts split rewrites instead of copying
Rewritten == {PresPath, PresRelsPath, AppPath}

\* the parts of the source that make the closure of unit i: the parts
\* reachable from the unit and their relationship indexes
ClosureParts(i) ==
    LET R == Reach(src, slides[i].path)
    IN (R \cup RelsOf(src, R)) \cap NameList(src)

\* every part of the closure of unit i that split does not rewrite is in the
\* package of unit i with the bytes it has in the source, and nothing else in
\* that package differs from the source
CopiedVerbatim(i) ==
    /\ \A p \in ClosureParts(i) \ Rewritten :
          /\ p \in OutNames(i)
          /\ Read(outs[i].entries, p) = Read(src, p)
    /\ \A k \in DOMAIN outs[i].entries :
          LET e == outs[i].entries[k] IN
          e.name \notin Rewritten =>
              e.name \in NameList(src) /\ e.content = Read(src, e.name)

\* C24: every package split produced holds the parts of its unit's closure,
\* but the manifest, its relationship index and the metadata part, with the
\* bytes of the source; and no step of split changes the source package.
C24_ClosureCopiedVerbatim ==
    /\ [](\A i \in Produced : CopiedVerbatim(i))
    /\ [][src' = src]_vars

\* a unit with an image of its own was produced
C24_Witness ==
    \E i \in Produced :
        \E p \in ClosureParts(i) :
            /\ Len(p) > 3
            /\ p[3] = "media"
            /\ p \in OutNames(i)

-----------------------------------------------------------------------------
(* C25 *)

C25_EveryMetadataEntry ==
    \A i \in Produced :
        \A k \in DOMAIN outs[i].entries :
            LET e == outs[i].entries[k] IN
            e.name = AppPath => e.content.Slides = 1 /\ e.content.HiddenSlides = 0

-----------------------------------------------------------------------------
(* C26 *)

\* the type registry of a container
Registry(zip) == Read(zip, ContentTypesPath).data

\* the parts of a container: its entries but the type registry itself
PartNames(zip) == NameList(zip) \ {ContentTypesPath}

\* every part of the container is covered by the registry
RegistryCovers(zip) ==
    \A p \in PartNames(zip) :
        p \in Registry(zip).overrides \/ Extension(p) \in Registry(zip).defaults

\* the registry has no Override for a part that is not in the container
RegistryMinimal(zip) == Registry(zip).overrides \subseteq PartNames(zip)

\* C26: the type registry of every package split produced covers every part
\* of the package and holds no Override for a part that is not in it.
C26_RegistryMatchesOutput ==
    \A i \in Produced :
        /\ ContentTypesPath \in OutNames(i)
        /\ RegistryCovers(outs[i].entries)
        /\ RegistryMinimal(outs[i].entries)

\* the first half of C26: every part of a produced package is covered
C26_RegistryCoversOutput ==
    \A i \in Produced :
        ContentTypesPath \in OutNames(i) /\ RegistryCovers(outs[i].entries)

-----------------------------------------------------------------------------
(* C27 *)

\* The package has a manifest with a unit list, every reference of the list
\* resolves to a relationship of the manifest's index (the first with that
\* identifier), and the target of that relationship is a part of the package.
ReferencesResolve(zip) ==
    /\ PresPath \in NameList(zip)
    /\ PresRelsPath \in NameList(zip)
    /\ LET pres == Read(zip, PresPath)
           rels == Read(zip, PresRelsPath).rels
       IN /\ pres.hasLst
          /\ \A k \in DOMAIN pres.sldIdLst :
                LET r == FirstRel(rels, pres.sldIdLst[k].rid) IN
                /\ r # 0
                /\ (<<"ppt", "/">> \o rels[r].Target) \in NameList(zip)

\* C27: the check split runs on each package it has built accepts the
\* package exactly when its manifest has a unit list whose references
\* resolve to relationships whose targets are parts of the package.
C27_VerifyRejectsUnresolved ==
    \A i \in 1..MaxSlides :
        (outs[i].exists /\ (i \in Produced \/ i \in failed) /\ PresPath \in OutNames(i)
         /\ PresRelsPath \in OutNames(i)) =>
            (VerifyOutput(outs[i].entries) <=> ReferencesResolve(outs[i].entries))

-----------------------------------------------------------------------------
(* C28 *)

\* PPTXMerger has merged at least one package
MergerReturned ==
    /\ call.op = "PPTXMerger"
    /\ lpc = "returned"
    /\ call.input_files # <<>>

\* the manifest entries and the parts of the base are in the result as they
\* were
BasePreserved(B, R) ==
    /\ \A path \in DOMAIN B \ {PresPath} : path \in DOMAIN R /\ R[path] = B[path]
    /\ PresPath \in DOMAIN R
    /\ Len(Manifest(R)) >= Len(Manifest(B))
    /\ SubSeq(Manifest(R), 1, Len(Manifest(B))) = Manifest(B)

\* C28: in the result of a merge the base's manifest entries and parts are
\* as they were, and every unit of the other inputs has an entry after them
\* whose numeric identifier and whose relationship identifier are greater
\* than those of every entry before it.
C28_AppendedUnitsGetFreshIds ==
    MergerReturned =>
        LET B == disk[taken[1]]
            R == disk[call.output_file]
            M == Manifest(R)
        IN /\ BasePreserved(B, R)
           /\ Len(M) = Len(ConcatUnits(taken))
           /\ \A k \in (Len(Manifest(B)) + 1)..Len(M) :
                \A j \in 1..(k - 1) : M[k].id > M[j].id /\ M[k].rid > M[j].rid

\* the second half of C28: the base is preserved
C28_BaseIsPreserved ==
    MergerReturned => BasePreserved(disk[taken[1]], disk[call.output_file])

-----------------------------------------------------------------------------
(* C29 *)

\* every relationship identifier the shapes of the slide refer to resolves,
\* in the relationships of the slide's part, to the image the shape showed in
\* the presentation it comes from
SlideConsistent(slide) ==
    \A k \in DOMAIN slide.shapes :
        LET shape == slide.shapes[k] IN
        shape.embed # "" =>
            /\ shape.embed \in DOMAIN slide.rels
            /\ slide.rels[shape.embed] = <<"image", shape.file, shape.pos>>

\* C29: in the result of merge_pptx every slide copied from an input after
\* the base is consistent: what its shapes refer to by relationship
\* identifier is, in the slide's own relationships, the part they referred to
\* in the input.
C29_CopiedUnitsConsistent ==
    (call.op = "merge_pptx" /\ lpc = "returned") =>
        LET R == disk[call.output_file] IN
        \A t \in DOMAIN R :
            R[t].shapes[1].file # call.input_files[1] => SlideConsistent(R[t])

\* the slides of the inputs, and the slides without a picture that
\* merge_pptx copies, are consistent
C29_InputsAndTextSlidesConsistent ==
    /\ call.op = "merge_pptx" =>
          \A f \in DOMAIN disk \ {call.output_file} :
              \A t \in DOMAIN disk[f] : SlideConsistent(disk[f][t])
    /\ (call.op = "merge_pptx" /\ lpc = "returned") =>
          LET R == disk[call.output_file] IN
          \A t \in DOMAIN R :
              R[t].shapes[1].embed = "" => SlideConsistent(R[t])

-----------------------------------------------------------------------------
(* C30 *)

\* C30: when PPTXMerger.merge has returned or raised, its temporary
\* directory does not exist; and with no input file the directory never
\* exists, no output file is written, and merge returns None.
C30_ScratchReleased ==
    call.op = "PPTXMerger" =>
        /\ lpc \in {"returned", "raised"} => ~temp_dir.exists
        /\ call.input_files = <<>> =>
              /\ ~temp_dir.exists
              /\ call.output_file \notin DOMAIN disk
              /\ lpc # "raised"
              /\ lpc = "returned" => ret = <<>>

\* merge has raised while writing the output, after it had created the
\* directory and extracted the base into it
C30_Witness ==
    /\ call.op = "PPTXMerger"
    /\ lpc = "raised"
    /\ call.fault = "write"
    /\ taken # <<>>
    /\ ~temp_dir.exists

====
